---- MODULE Spec2Model ----
(***************************************************************************)
(* Inlay hints of crates/ide/src/inlay_hints.rs: the traversal driver      *)
(* inlay_hints, the three detectors (chaining, parameter name, binding     *)
(* type), their suppression heuristics and the label formatter.            *)
(*                                                                         *)
(* A request is one run of the loop of inlay_hints over the descendants of *)
(* the parsed file.  The syntax tree is a nested value: a node holds its   *)
(* kind and its children (nodes and tokens, whitespace and comments        *)
(* included); the text of a node is the text of its tokens and its range   *)
(* follows from the text before it.  The facts the semantic engine answers *)
(* (type of an expression or pattern, the callable of a call) are attached *)
(* to the node they are asked about.  A node is identified by its path,    *)
(* the child indices from the root.                                        *)
(***************************************************************************)
EXTENDS Integers, Sequences, FiniteSets, TLC

VARIABLES
    file,     \* the parsed source file (sema.parse(file_id)) with the semantic facts
    config,   \* the InlayHintsConfig of the request
    pc,       \* "loop" while the for loop of inlay_hints runs, "done" once res is returned
    iter,     \* the iterator file.syntax().descendants(): the nodes it has yet to yield
    res,      \* the Vec<InlayHint> being built, then returned
    prev      \* what the host holds of the request before this one: its config and result

vars == <<file, config, pc, iter, res, prev>>

-----------------------------------------------------------------------------
(* Option<T> *)

None == [some |-> FALSE]
Some(v) == [some |-> TRUE, val |-> v]

-----------------------------------------------------------------------------
(* Strings (str): Len is the length in bytes, every character used is ASCII *)

Min(a, b) == IF a < b THEN a ELSE b

StartsWith(s, p) == Len(p) <= Len(s) /\ SubSeq(s, 1, Len(p)) = p

EndsWith(s, p) == Len(p) <= Len(s) /\ SubSeq(s, Len(s) - Len(p) + 1, Len(s)) = p

RECURSIVE Contains(_, _)
Contains(s, c) ==
    IF Len(s) = 0 THEN FALSE
    ELSE IF SubSeq(s, 1, 1) = c THEN TRUE
    ELSE Contains(SubSeq(s, 2, Len(s)), c)

\* were one leading occurrence of c removed
TrimStartOnce(s, c) == IF Len(s) > 0 /\ SubSeq(s, 1, 1) = c THEN SubSeq(s, 2, Len(s)) ELSE s

\* str::trim_start_matches(c): every leading occurrence of c is removed
RECURSIVE TrimStartMatches(_, _)
TrimStartMatches(s, c) ==
    IF Len(s) > 0 /\ SubSeq(s, 1, 1) = c
    THEN TrimStartMatches(SubSeq(s, 2, Len(s)), c)
    ELSE s

UpperCase == "ABCDEFGHIJKLMNOPQRSTUVWXYZ"
LowerCase == "abcdefghijklmnopqrstuvwxyz"

IsAsciiUppercase(c) == \E i \in 1..Len(UpperCase) : SubSeq(UpperCase, i, i) = c

ToAsciiLowercase(c) ==
    IF IsAsciiUppercase(c)
    THEN LET i == CHOOSE j \in 1..Len(UpperCase) : SubSeq(UpperCase, j, j) = c
         IN  SubSeq(LowerCase, i, i)
    ELSE c

\* stdx::to_lower_snake_case: an underscore before every upper-case letter but the
\* first character, every letter lowered
RECURSIVE SnakeFrom(_, _)
SnakeFrom(s, i) ==
    IF i > Len(s) THEN ""
    ELSE LET c == SubSeq(s, i, i)
         IN  (IF IsAsciiUppercase(c) /\ i > 1 THEN "_" ELSE "")
                 \o ToAsciiLowercase(c) \o SnakeFrom(s, i + 1)

to_lower_snake_case(s) == SnakeFrom(s, 1)

-----------------------------------------------------------------------------
(* The syntax tree (rowan): elements are nodes or tokens *)

Tok(kind, text) == [tok |-> TRUE, kind |-> kind, text |-> text]

\* a node; ty is what sema.type_of_expr / type_of_pat answers for it, callable what
\* sema.resolve_method_call_as_callable answers for it
Node(kind, ch) == [tok |-> FALSE, kind |-> kind, ch |-> ch, ty |-> None, callable |-> None]

RECURSIVE ElemAt(_, _)
ElemAt(e, path) == IF path = <<>> THEN e ELSE ElemAt(e.ch[Head(path)], Tail(path))

Parent(path) == SubSeq(path, 1, Len(path) - 1)

\* the text of an element: AstNode::to_string, SyntaxToken::text
RECURSIVE Text(_)
RECURSIVE TextFrom(_, _)
Text(e) == IF e.tok THEN e.text ELSE TextFrom(e, 1)
TextFrom(e, i) == IF i > Len(e.ch) THEN "" ELSE Text(e.ch[i]) \o TextFrom(e, i + 1)

RECURSIVE TextLenBefore(_, _)
TextLenBefore(e, i) == IF i <= 1 THEN 0 ELSE TextLenBefore(e, i - 1) + Len(Text(e.ch[i - 1]))

RECURSIVE OffsetOf(_, _, _)
OffsetOf(e, path, base) ==
    IF path = <<>> THEN base
    ELSE OffsetOf(e.ch[Head(path)], Tail(path), base + TextLenBefore(e, Head(path)))

\* SyntaxNode::text_range: the half-open span <<start, end>> of the node's text
text_range(f, path) ==
    LET start == OffsetOf(f, path, 0)
    IN  <<start, start + Len(Text(ElemAt(f, path)))>>

\* SyntaxNode::descendants: the node itself, then the descendants of each child node
\* in turn (pre-order); tokens are not nodes
RECURSIVE Preorder(_, _)
RECURSIVE PreorderChildren(_, _, _)
Preorder(e, path) == <<path>> \o PreorderChildren(e, path, 1)
PreorderChildren(e, path, i) ==
    IF i > Len(e.ch) THEN <<>>
    ELSE (IF e.ch[i].tok THEN <<>> ELSE Preorder(e.ch[i], Append(path, i)))
             \o PreorderChildren(e, path, i + 1)

descendants(f) == Preorder(f, <<>>)

\* were the ancestors walked from the root down to the node
ancestors_from_the_root(path) == [k \in 1..(Len(path) + 1) |-> SubSeq(path, 1, k - 1)]

\* SyntaxNode::ancestors: the node itself, its parent, ..., the root
RECURSIVE ancestors(_)
ancestors(path) == IF path = <<>> THEN <<path>> ELSE <<path>> \o ancestors(Parent(path))

\* SyntaxNode::siblings_with_tokens(Direction::Next): the node itself and every
\* element after it under the same parent
siblings_with_tokens(f, path) ==
    IF path = <<>> THEN <<f>>
    ELSE LET p == ElemAt(f, Parent(path))
         IN  SubSeq(p.ch, path[Len(path)], Len(p.ch))

\* support::child / support::token: the first child node (token) of one of the kinds
ChildIndices(e, kinds, tok) ==
    {i \in 1..Len(e.ch) : e.ch[i].tok = tok /\ e.ch[i].kind \in kinds}

FirstChild(e, kinds) ==
    LET s == ChildIndices(e, kinds, FALSE)
    IN  IF s = {} THEN None ELSE Some(CHOOSE i \in s : \A j \in s : i <= j)

HasToken(e, kind) == ChildIndices(e, {kind}, TRUE) # {}

\* the kinds ast::Expr::cast, ast::Pat::cast and ast::Type::cast accept
ExprKinds ==
    {"CALL_EXPR", "METHOD_CALL_EXPR", "PATH_EXPR", "RECORD_EXPR", "LITERAL", "REF_EXPR",
     "FIELD_EXPR", "IF_EXPR", "WHILE_EXPR", "FOR_EXPR", "MATCH_EXPR", "BLOCK_EXPR",
     "CLOSURE_EXPR", "MACRO_CALL", "TUPLE_EXPR"}

PatKinds ==
    {"IDENT_PAT", "TUPLE_PAT", "TUPLE_STRUCT_PAT", "RECORD_PAT", "WILDCARD_PAT", "REF_PAT"}

TypeKinds == {"PATH_TYPE", "REF_TYPE", "TUPLE_TYPE"}

-----------------------------------------------------------------------------
(* Semantic facts (hir): types, ADTs, callables *)

\* a hir::Type.  ctor is "Unknown", "Tuple", "Ref", "Adt" or "Other" (scalars, type
\* parameters, str, ...); args are the referent of a Ref, the elements of a Tuple, the
\* type arguments of an Adt; adt is the hir::Adt of an "Adt"; callable is what
\* as_callable answers; impls_iter and item are what impls_trait and
\* normalize_trait_assoc_type answer for core::iter::Iterator and its Item
Ty(ctor, name, args) ==
    [ctor |-> ctor, name |-> name, args |-> args, mutbl |-> FALSE, adt |-> None,
     callable |-> None, impls_iter |-> FALSE, item |-> None]

\* were no type taken for unknown
is_unknown_of_no_type(ty) == FALSE

is_unknown(ty) == ty.ctor = "Unknown"

\* were no type taken for the unit type
is_unit_of_no_type(ty) == FALSE

is_unit(ty) == ty.ctor = "Tuple" /\ ty.args = <<>>

\* were no type taken for a reference
remove_ref_of_no_type(ty) == None

remove_ref(ty) == IF ty.ctor = "Ref" THEN Some(ty.args[1]) ELSE None

as_adt(ty) == IF ty.ctor = "Adt" THEN Some(ty.adt) ELSE None

as_callable(ty) == ty.callable

\* sema.type_of_expr, sema.type_of_pat: None when the node has no resolved type
type_of_expr(f, path) == ElemAt(f, path).ty

type_of_pat(f, path) == ElemAt(f, path).ty

\* HirDisplay::display_truncated.  The formatter counts what it has written
\* (curr_size) and, before it starts a type, writes the truncation marker instead of
\* the type once curr_size has reached max_size: `Smol<u32>`,
\* `VeryLongOuterName<...>` and `Smol<Smol<...>>` at max_size 8.  The marker is
\* U+2026, three bytes in UTF-8; it is written here as three ASCII characters so that
\* Len is the length in bytes, as str::len is.
TYPE_HINT_TRUNCATION == "..."

should_truncate(max_size, curr_size) == max_size.some /\ curr_size >= max_size.val

RECURSIVE hir_fmt(_, _, _)
RECURSIVE write_joined(_, _, _, _)
hir_fmt(ty, max_size, curr_size) ==
    IF should_truncate(max_size, curr_size) THEN TYPE_HINT_TRUNCATION
    ELSE CASE ty.ctor = "Ref" ->
                  LET amp == IF ty.mutbl THEN "&mut " ELSE "&"
                  IN  amp \o hir_fmt(ty.args[1], max_size, curr_size + Len(amp))
           [] ty.ctor = "Tuple" ->
                  IF Len(ty.args) = 1
                  THEN "(" \o hir_fmt(ty.args[1], max_size, curr_size + 1) \o ",)"
                  ELSE "(" \o write_joined(ty.args, 1, max_size, curr_size + 1) \o ")"
           [] ty.ctor = "Adt" ->
                  IF ty.args = <<>> THEN ty.name
                  ELSE ty.name \o "<"
                           \o write_joined(ty.args, 1, max_size, curr_size + Len(ty.name) + 1)
                           \o ">"
           [] ty.ctor = "Unknown" -> "{unknown}"
           [] OTHER -> ty.name
write_joined(tys, i, max_size, curr_size) ==
    IF i > Len(tys) THEN ""
    ELSE LET sep == IF i > 1 THEN ", " ELSE ""
             one == hir_fmt(tys[i], max_size, curr_size + Len(sep))
         IN  sep \o one \o write_joined(tys, i + 1, max_size, curr_size + Len(sep) + Len(one))

display_truncated(ty, max_size) == hir_fmt(ty, max_size, 0)

-----------------------------------------------------------------------------
(* The label formatter *)

LABEL_START == "impl Iterator<Item = "
LABEL_END == ">"

\* were nothing taken off the maximum length
minuend(a, b) == a

saturating_sub(a, b) == IF a >= b THEN a - b ELSE 0

\* std::iter::successors(Some(ty), remove_ref).last(): the type under every reference
RECURSIVE StripRefs(_)
StripRefs(ty) == IF remove_ref(ty).some THEN StripRefs(remove_ref(ty).val) ELSE ty

\* hint_iterator: Some(label) when the type is an Iterator of core::iter
hint_iterator(cfg, ty) ==
    LET strukt == as_adt(StripRefs(ty))
    IN  IF ~strukt.some THEN None
        ELSE LET krate == strukt.val.krate
             IN  IF ~krate.some THEN None
                 ELSE IF krate.val.declaration_name # Some("core") THEN None
                 ELSE IF ~krate.val.core_iter_Iterator THEN None
                 ELSE IF ~krate.val.core_iter THEN None
                 ELSE IF krate.val.visibility_of_Iterator # Some("Public") THEN None
                 ELSE IF ty.impls_iter
                      THEN IF ~krate.val.has_Item THEN None
                           ELSE IF ty.item.some
                                THEN LET max == IF cfg.max_length.some
                                                THEN Some(saturating_sub(cfg.max_length.val,
                                                              Len(LABEL_START) + Len(LABEL_END)))
                                                ELSE None
                                         ty_display == display_truncated(ty.item.val, max)
                                     IN  Some(LABEL_START \o ty_display \o LABEL_END)
                                ELSE None
                      ELSE None

\* the label of a type or chaining hint:
\* hint_iterator(..).unwrap_or_else(|| ty.display_truncated(db, config.max_length))
TypeLabel(cfg, ty) ==
    LET it == hint_iterator(cfg, ty)
    IN  IF it.some THEN it.val ELSE display_truncated(ty, cfg.max_length)

InlayHint(range, kind, label) == [range |-> range, kind |-> kind, label |-> label]

-----------------------------------------------------------------------------
(* Vec<InlayHint> *)

RangeLess(r1, r2) == r1[1] < r2[1] \/ (r1[1] = r2[1] /\ r1[2] < r2[2])

\* were the hints kept sorted by range: the hint goes before the first one of a greater range
push_sorted_by_range(acc, hint) ==
    LET later == {k \in 1..Len(acc) : RangeLess(hint.range, acc[k].range)}
        at == IF later = {} THEN Len(acc) + 1 ELSE CHOOSE k \in later : \A m \in later : k <= m
    IN  SubSeq(acc, 1, at - 1) \o <<hint>> \o SubSeq(acc, at, Len(acc))

push(acc, hint) == Append(acc, hint)

extend(acc, hints) == acc \o hints

-----------------------------------------------------------------------------
(* The chaining detector *)

\* .filter_map(NodeOrToken::into_token).filter(..): the tokens among the elements,
\* without the whitespace that holds no line break and without the comments
\* were the comments kept among the tokens
FilterTokensButComments(elems, i) ==
    SelectSeq(SubSeq(elems, i, Len(elems)),
              LAMBDA t : t.tok /\ ~(t.kind = "WHITESPACE" /\ ~Contains(t.text, "\n")))

RECURSIVE FilterTokens(_, _)
FilterTokens(elems, i) ==
    IF i > Len(elems) THEN <<>>
    ELSE LET t == elems[i]
             keep == /\ t.tok
                     /\ ~(t.kind = "WHITESPACE" /\ ~Contains(t.text, "\n"))
                     /\ t.kind # "COMMENT"
         IN  (IF keep THEN <<t>> ELSE <<>>) \o FilterTokens(elems, i + 1)

\* get_chaining_hints after the check of config.chaining_hints
ChainingHintOf(acc, f, cfg, expr) ==
    IF ElemAt(f, expr).kind = "RECORD_EXPR" THEN acc
    ELSE LET tokens == FilterTokens(siblings_with_tokens(f, expr), 1)
         IN  IF Len(tokens) < 2 THEN acc
             ELSE IF tokens[1].kind = "WHITESPACE" /\ tokens[2].kind = "DOT"
                  THEN LET ty == type_of_expr(f, expr)
                       IN  IF ~ty.some THEN acc
                           ELSE IF is_unknown(ty.val) THEN acc
                           ELSE IF /\ ElemAt(f, expr).kind = "PATH_EXPR"
                                   /\ as_adt(ty.val).some
                                   /\ as_adt(ty.val).val.kind = "Struct"
                                   /\ as_adt(ty.val).val.nfields = 0
                                THEN acc
                                ELSE push(acc, InlayHint(text_range(f, expr), "ChainingHint",
                                                         TypeLabel(cfg, ty.val)))
                  ELSE acc

\* were config.chaining_hints not looked at
get_chaining_hints_whatever_the_flag(acc, f, cfg, expr) == ChainingHintOf(acc, f, cfg, expr)

get_chaining_hints(acc, f, cfg, expr) ==
    IF ~cfg.chaining_hints THEN acc ELSE ChainingHintOf(acc, f, cfg, expr)

-----------------------------------------------------------------------------
(* The parameter detector and its suppression heuristics *)

\* a hir::Callable: kind is "Function", "TupleStruct", "TupleEnumVariant" or
\* "Closure"; name is the function's name; params is callable.params(db), each entry
\* None or Some([left |-> is it the self parameter, node |-> its SelfParam or Pat])
Callable(kind, name, params) == [kind |-> kind, name |-> name, params |-> params]

\* hir::Callable::n_params: the parameters params() lists
n_params(callable) == Len(callable.params)

get_callable(f, expr) ==
    LET e == ElemAt(f, expr)
    IN  CASE e.kind = "CALL_EXPR" ->
                 LET callee == FirstChild(e, ExprKinds)
                 IN  IF ~callee.some THEN None
                     ELSE LET ty == type_of_expr(f, Append(expr, callee.val))
                          IN  IF ~ty.some THEN None ELSE as_callable(ty.val)
          [] e.kind = "METHOD_CALL_EXPR" -> e.callable
          [] OTHER -> None

is_obvious_param(param_name) ==
    LET is_obvious_param_name == param_name \in {"predicate", "value", "pat", "rhs", "other"}
    IN  Len(param_name) = 1 \/ is_obvious_param_name

RECURSIVE get_string_representation(_, _)
get_string_representation(f, expr) ==
    LET e == ElemAt(f, expr)
    IN  CASE e.kind = "METHOD_CALL_EXPR" ->
                 LET name_ref == FirstChild(e, {"NAME_REF"})
                 IN  IF ~name_ref.some THEN None ELSE Some(Text(e.ch[name_ref.val]))
          [] e.kind = "REF_EXPR" ->
                 LET inner == FirstChild(e, ExprKinds)
                 IN  IF ~inner.some THEN None
                     ELSE get_string_representation(f, Append(expr, inner.val))
          [] OTHER -> Some(Text(e))

is_enum_name_similar_to_param_name(f, argument, param_name) ==
    LET ty == type_of_expr(f, argument)
    IN  /\ ty.some
        /\ as_adt(ty.val).some
        /\ as_adt(ty.val).val.kind = "Enum"
        /\ to_lower_snake_case(as_adt(ty.val).val.name) = param_name

\* were the position of the parameter not looked at
is_param_name_similar_to_fn_name_at_any_position(param_name, param_num, fn_name) ==
    IF fn_name.some
    THEN LET function == fn_name.val
         IN  \/ function = param_name
             \/ /\ Len(function) > Len(param_name)
                /\ EndsWith(SubSeq(function, 1, Len(function) - Len(param_name)), "_")
                /\ EndsWith(function, param_name)
    ELSE FALSE

is_param_name_similar_to_fn_name(param_name, param_num, fn_name) ==
    IF param_num = 0 /\ fn_name.some
    THEN LET function == fn_name.val
         IN  \/ function = param_name
             \/ /\ Len(function) > Len(param_name)
                /\ EndsWith(SubSeq(function, 1, Len(function) - Len(param_name)), "_")
                /\ EndsWith(function, param_name)
    ELSE FALSE

is_argument_similar_to_param_name(f, argument, param_name) ==
    IF is_enum_name_similar_to_param_name(f, argument, param_name) THEN TRUE
    ELSE LET repr == get_string_representation(f, argument)
         IN  IF ~repr.some THEN FALSE
             ELSE LET argument_string == TrimStartMatches(repr.val, "_")
                  IN  \/ StartsWith(argument_string, param_name)
                      \/ EndsWith(argument_string, param_name)

should_show_param_name_hint(f, callable, raw_name, param_num, argument) ==
    LET param_name == TrimStartMatches(raw_name, "_")
        fn_name == IF callable.kind = "Function" THEN Some(callable.name) ELSE None
    IN  IF \/ Len(param_name) = 0
           \/ (fn_name.some /\ param_name = TrimStartMatches(fn_name.val, "_"))
           \/ is_argument_similar_to_param_name(f, argument, param_name)
           \/ is_param_name_similar_to_fn_name(param_name, param_num, fn_name)
           \/ StartsWith(param_name, "ra_fixture")
        THEN FALSE
        ELSE ~(n_params(callable) = 1 /\ is_obvious_param(param_name))

\* ArgList::args: the expressions among the children of the argument list
ArgPaths(f, arg_list) ==
    LET e == ElemAt(f, arg_list)
        idx == ChildIndices(e, ExprKinds, FALSE)
        RECURSIVE From(_)
        From(i) == IF i > Len(e.ch) THEN <<>>
                   ELSE (IF i \in idx THEN <<Append(arg_list, i)>> ELSE <<>>) \o From(i + 1)
    IN  From(1)

\* the name a parameter of callable.params(db) is hinted with, None when it has none
ParamName(param) ==
    IF ~param.some THEN None
    ELSE IF param.val.left THEN Some(Text(param.val.node))
    ELSE IF param.val.node.kind = "IDENT_PAT"
         THEN LET n == FirstChild(param.val.node, {"NAME"})
              IN  IF ~n.some THEN None ELSE Some(Text(param.val.node.ch[n.val]))
         ELSE None

\* were the parameters without a name dropped before the pairing with the arguments
NamedPairsOfNamedParams(params, args, i) ==
    LET named == SelectSeq(params, LAMBDA param : ParamName(param).some)
    IN  [k \in 1..Min(Len(named), Len(args)) |->
            [param_name |-> ParamName(named[k]).val, arg |-> args[k]]]

\* .zip(args).filter_map(..): the pairs whose parameter has a name, in order
RECURSIVE NamedPairs(_, _, _)
NamedPairs(params, args, i) ==
    IF i > Min(Len(params), Len(args)) THEN <<>>
    ELSE LET name == ParamName(params[i])
         IN  (IF name.some THEN <<[param_name |-> name.val, arg |-> args[i]]>> ELSE <<>>)
                 \o NamedPairs(params, args, i + 1)

\* .enumerate().filter(..).map(..): the hints of the pairs that are to be shown
RECURSIVE ParamHints(_, _, _, _)
ParamHints(f, callable, pairs, k) ==
    IF k > Len(pairs) THEN <<>>
    ELSE (IF should_show_param_name_hint(f, callable, pairs[k].param_name, k - 1, pairs[k].arg)
          THEN <<InlayHint(text_range(f, pairs[k].arg), "ParameterHint", pairs[k].param_name)>>
          ELSE <<>>)
             \o ParamHints(f, callable, pairs, k + 1)

get_param_name_hints(acc, f, cfg, expr) ==
    IF ~cfg.parameter_hints THEN acc
    ELSE LET arg_list == FirstChild(ElemAt(f, expr), {"ARG_LIST"})
         IN  IF ~arg_list.some THEN acc
             ELSE LET args == ArgPaths(f, Append(expr, arg_list.val))
                      callable == get_callable(f, expr)
                  IN  IF ~callable.some THEN acc
                      ELSE extend(acc, ParamHints(f, callable.val,
                                                  NamedPairs(callable.val.params, args, 1), 1))

-----------------------------------------------------------------------------
(* The binding detector and its suppression heuristics *)

\* were the name the pattern binds compared with the variants, not the pattern's text
pat_is_enum_variant_by_name(f, bind_pat, pat_ty) ==
    IF as_adt(pat_ty).some /\ as_adt(pat_ty).val.kind = "Enum"
    THEN LET pat == ElemAt(f, bind_pat)
             name == FirstChild(pat, {"NAME"})
             variants == as_adt(pat_ty).val.variants
         IN  name.some /\ \E i \in 1..Len(variants) : variants[i] = Text(pat.ch[name.val])
    ELSE FALSE

pat_is_enum_variant(f, bind_pat, pat_ty) ==
    IF as_adt(pat_ty).some /\ as_adt(pat_ty).val.kind = "Enum"
    THEN LET pat_text == Text(ElemAt(f, bind_pat))
             variants == as_adt(pat_ty).val.variants
         IN  \E i \in 1..Len(variants) : variants[i] = pat_text
    ELSE FALSE

\* were a condition without a pattern taken for one with a pattern
HasCondition(e) == FirstChild(e, {"CONDITION"}).some

\* condition().and_then(|condition| condition.pat()).is_some() of an if or a while
ConditionHasPat(e) ==
    LET condition == FirstChild(e, {"CONDITION"})
    IN  condition.some /\ FirstChild(e.ch[condition.val], PatKinds).some

\* the for loop over bind_pat.syntax().ancestors(): the first ancestor that is a let
\* statement, a parameter, a match arm, an if, a while or a for decides
RECURSIVE AncestorsDecide(_, _, _, _, _)
AncestorsDecide(f, anc, i, bind_pat, pat_ty) ==
    IF i > Len(anc) THEN FALSE
    ELSE LET node == anc[i]
             it == ElemAt(f, node)
         IN  CASE it.kind = "LET_STMT" -> FirstChild(it, TypeKinds).some
               [] it.kind = "PARAM" -> FirstChild(it, TypeKinds).some
               [] it.kind = "MATCH_ARM" -> pat_is_enum_variant(f, bind_pat, pat_ty)
               [] it.kind = "IF_EXPR" ->
                      ConditionHasPat(it) /\ pat_is_enum_variant(f, bind_pat, pat_ty)
               [] it.kind = "WHILE_EXPR" ->
                      ConditionHasPat(it) /\ pat_is_enum_variant(f, bind_pat, pat_ty)
               [] it.kind = "FOR_EXPR" ->
                      \/ ~HasToken(it, "IN_KW")
                      \/ LET iterable == FirstChild(it, ExprKinds)
                         IN  IF ~iterable.some THEN TRUE
                             ELSE LET iterable_ty == type_of_expr(f, Append(node, iterable.val))
                                  IN  IF ~iterable_ty.some THEN TRUE
                                      ELSE \/ is_unknown(iterable_ty.val)
                                           \/ is_unit(iterable_ty.val)
               [] OTHER -> AncestorsDecide(f, anc, i + 1, bind_pat, pat_ty)

should_not_display_type_hint(f, bind_pat, pat_ty) ==
    IF is_unknown(pat_ty) THEN TRUE
    ELSE IF /\ as_adt(pat_ty).some
            /\ as_adt(pat_ty).val.kind = "Struct"
            /\ as_adt(pat_ty).val.nfields = 0
            /\ as_adt(pat_ty).val.name = Text(ElemAt(f, bind_pat))
         THEN TRUE
         ELSE AncestorsDecide(f, ancestors(bind_pat), 1, bind_pat, pat_ty)

get_bind_pat_hints(acc, f, cfg, pat) ==
    IF ~cfg.type_hints THEN acc
    ELSE LET ty == type_of_pat(f, pat)
         IN  IF ~ty.some THEN acc
             ELSE IF should_not_display_type_hint(f, pat, ty.val) THEN acc
             ELSE push(acc, InlayHint(text_range(f, pat), "TypeHint", TypeLabel(cfg, ty.val)))

-----------------------------------------------------------------------------
(* The traversal driver *)

\* the body of the for loop of inlay_hints for one node: the chaining detector when the
\* node is an expression, then the detector of the node's kind; what the detectors
\* return (Option<()>) is dropped
\* were the detector of the node's kind skipped when the chaining detector gave nothing
LoopBodyStoppingAtNone(acc, f, cfg, node) ==
    LET kind == ElemAt(f, node).kind
        acc1 == IF kind \in ExprKinds THEN get_chaining_hints(acc, f, cfg, node) ELSE acc
    IN  IF kind \in ExprKinds /\ acc1 = acc THEN acc
        ELSE CASE kind = "CALL_EXPR" -> get_param_name_hints(acc1, f, cfg, node)
               [] kind = "METHOD_CALL_EXPR" -> get_param_name_hints(acc1, f, cfg, node)
               [] kind = "IDENT_PAT" -> get_bind_pat_hints(acc1, f, cfg, node)
               [] OTHER -> acc1

LoopBody(acc, f, cfg, node) ==
    LET kind == ElemAt(f, node).kind
        acc1 == IF kind \in ExprKinds THEN get_chaining_hints(acc, f, cfg, node) ELSE acc
    IN  CASE kind = "CALL_EXPR" -> get_param_name_hints(acc1, f, cfg, node)
          [] kind = "METHOD_CALL_EXPR" -> get_param_name_hints(acc1, f, cfg, node)
          [] kind = "IDENT_PAT" -> get_bind_pat_hints(acc1, f, cfg, node)
          [] OTHER -> acc1

\* one iteration of `for node in file.syntax().descendants()`
Visit ==
    /\ pc = "loop"
    /\ iter # <<>>
    /\ res' = LoopBody(res, file, config, Head(iter))
    /\ iter' = Tail(iter)
    /\ UNCHANGED <<file, config, pc, prev>>

\* the loop is over: res is returned
Return ==
    /\ pc = "loop"
    /\ iter = <<>>
    /\ pc' = "done"
    /\ UNCHANGED <<file, config, iter, res, prev>>

InlayHintsConfig(type_hints, parameter_hints, chaining_hints, max_length) ==
    [type_hints |-> type_hints, parameter_hints |-> parameter_hints,
     chaining_hints |-> chaining_hints, max_length |-> max_length]

\* impl Default for InlayHintsConfig
DefaultConfig == InlayHintsConfig(TRUE, TRUE, TRUE, None)

\* the configurations that differ in the three flags
FlagConfigs ==
    {InlayHintsConfig(t, p, c, None) : t \in BOOLEAN, p \in BOOLEAN, c \in BOOLEAN}

\* were the list of hints kept from one request to the next
NewRequestOnTheOldList ==
    /\ pc = "done"
    /\ ~prev.some
    /\ \E c \in FlagConfigs :
           /\ config' = c
           /\ prev' = Some([config |-> config, res |-> res])
    /\ pc' = "loop"
    /\ iter' = descendants(file)
    /\ UNCHANGED <<file, res>>

\* the host, which holds the result of its first request, asks again for the hints of
\* the same file, with a configuration of its choice
NewRequest ==
    /\ pc = "done"
    /\ ~prev.some
    /\ \E c \in FlagConfigs :
           /\ config' = c
           /\ prev' = Some([config |-> config, res |-> res])
    /\ pc' = "loop"
    /\ iter' = descendants(file)
    /\ res' = <<>>
    /\ UNCHANGED file

-----------------------------------------------------------------------------
(* Source files: the syntax trees the parser builds, with their semantic facts *)

WithTy(node, ty) == [node EXCEPT !.ty = ty]

WS == Tok("WHITESPACE", " ")
NL == Tok("WHITESPACE", "\n    ")
COMMENT == Tok("COMMENT", "// This is a comment")
DOT == Tok("DOT", ".")

Name(text) == Node("NAME", <<Tok("IDENT", text)>>)
NameRef(text) == Node("NAME_REF", <<Tok("IDENT", text)>>)

PathExpr(text, ty) ==
    WithTy(Node("PATH_EXPR", <<Node("PATH", <<Node("PATH_SEGMENT", <<NameRef(text)>>)>>)>>), ty)

Literal(text, ty) == WithTy(Node("LITERAL", <<Tok("INT_NUMBER", text)>>), ty)

RECURSIVE CommaSeparated(_, _)
CommaSeparated(args, i) ==
    IF i > Len(args) THEN <<>>
    ELSE (IF i > 1 THEN <<Tok("COMMA", ","), WS>> ELSE <<>>) \o <<args[i]>>
             \o CommaSeparated(args, i + 1)

ArgList(args) ==
    Node("ARG_LIST", <<Tok("L_PAREN", "(")>> \o CommaSeparated(args, 1) \o <<Tok("R_PAREN", ")")>>)

CallExpr(callee, args, ty) == WithTy(Node("CALL_EXPR", <<callee, ArgList(args)>>), ty)

\* receiver, the tokens between it and the dot, the method, the arguments
MethodCallExpr(receiver, sep, method, args, callable, ty) ==
    [Node("METHOD_CALL_EXPR", <<receiver>> \o sep \o <<DOT, NameRef(method), ArgList(args)>>)
        EXCEPT !.ty = ty, !.callable = callable]

IdentPat(text, ty) == WithTy(Node("IDENT_PAT", <<Name(text)>>), ty)

PathType(text) ==
    Node("PATH_TYPE", <<Node("PATH", <<Node("PATH_SEGMENT", <<NameRef(text)>>)>>)>>)

\* `let pat = init;` or, with a declared type, `let pat: ty = init;`
LetStmt(pat, ascribed, init) ==
    Node("LET_STMT",
         <<Tok("LET_KW", "let"), WS, pat>>
             \o (IF ascribed.some THEN <<Tok("COLON", ":"), WS, ascribed.val>> ELSE <<>>)
             \o <<WS, Tok("EQ", "="), WS, init, Tok("SEMICOLON", ";")>>)

ExprStmt(expr) == Node("EXPR_STMT", <<expr, Tok("SEMICOLON", ";")>>)

RECURSIVE Lines(_, _)
Lines(stmts, i) == IF i > Len(stmts) THEN <<>> ELSE <<NL, stmts[i]>> \o Lines(stmts, i + 1)

\* `fn main() { stmts }`
SourceFile(stmts) ==
    Node("SOURCE_FILE",
         <<Node("FN", <<Tok("FN_KW", "fn"), WS, Name("main"),
                        Node("PARAM_LIST", <<Tok("L_PAREN", "("), Tok("R_PAREN", ")")>>), WS,
                        Node("BLOCK_EXPR", <<Tok("L_CURLY", "{")>> \o Lines(stmts, 1)
                                               \o <<Tok("WHITESPACE", "\n"), Tok("R_CURLY", "}")>>)>>)>>)

Krate(name) ==
    [declaration_name |-> Some(name), core_iter_Iterator |-> TRUE, core_iter |-> TRUE,
     visibility_of_Iterator |-> Some("Public"), has_Item |-> TRUE]

Adt(kind, name, nfields, variants, krate, args) ==
    [Ty("Adt", name, args) EXCEPT
        !.adt = [kind |-> kind, name |-> name, nfields |-> nfields, variants |-> variants,
                 krate |-> Some(Krate(krate))]]

Struct(name, nfields) == Adt("Struct", name, nfields, <<>>, "main", <<>>)

Scalar(name) == Ty("Other", name, <<>>)

Unknown == Ty("Unknown", "", <<>>)

Unit == Ty("Tuple", "", <<>>)

Ref(ty) == Ty("Ref", "", <<ty>>)

\* the type of a function item or of a tuple struct constructor
FnDef(callable) == [Ty("Other", "fn", <<>>) EXCEPT !.callable = Some(callable)]

\* a declared parameter `name: ty`, as callable.params(db) lists it
ParamPat(name) == Some([left |-> FALSE, node |-> IdentPat(name, None)])

SelfParam(text) == Some([left |-> TRUE, node |-> Node("SELF_PARAM", <<Tok("SELF_KW", text)>>)])

-----------------------------------------------------------------------------
(* The files of the requests: statements after the fixtures of the tests *)

I32 == Scalar("i32")

TupleStructCtor(name) == Some(FnDef(Callable("TupleStruct", name, <<None>>)))

\* let c = A(B(C))
\*     .into_b() // This is a comment
\*     .into_c();
StmtChain ==
    LET abc == CallExpr(PathExpr("A", TupleStructCtor("A")),
                        <<CallExpr(PathExpr("B", TupleStructCtor("B")),
                                   <<PathExpr("C", Some(Struct("C", 0)))>>,
                                   Some(Struct("B", 1)))>>,
                        Some(Struct("A", 1)))
        into_b == MethodCallExpr(abc, <<NL>>, "into_b", <<>>,
                                 Some(Callable("Function", "into_b", <<>>)),
                                 Some(Struct("B", 1)))
        into_c == MethodCallExpr(into_b, <<WS, COMMENT, NL>>, "into_c", <<>>,
                                 Some(Callable("Function", "into_c", <<>>)),
                                 Some(Struct("C", 0)))
    IN  LetStmt(IdentPat("c", Some(Struct("C", 0))), None, into_c)

\* t.add(1, 2)
\*     .done();             with fn add(self, lhs: i32, rhs: i32) -> T, fn done(self)
StmtChainedCall ==
    LET add == Callable("Function", "add", <<ParamPat("lhs"), ParamPat("rhs")>>)
        t_add == MethodCallExpr(PathExpr("t", Some(Struct("T", 1))), <<>>, "add",
                                <<Literal("1", Some(I32)), Literal("2", Some(I32))>>,
                                Some(add), Some(Struct("T", 1)))
    IN  ExprStmt(MethodCallExpr(t_add, <<NL>>, "done", <<>>,
                                Some(Callable("Function", "done", <<>>)), Some(Unit)))

\* let test = unresolved(foo(4, 4));      with fn foo(a: i32, b: i32) -> i32
StmtUnresolved ==
    LET foo == Callable("Function", "foo", <<ParamPat("a"), ParamPat("b")>>)
        call == CallExpr(PathExpr("foo", Some(FnDef(foo))),
                         <<Literal("4", Some(I32)), Literal("4", Some(I32))>>, Some(I32))
    IN  LetStmt(IdentPat("test", Some(Unknown)), None,
                CallExpr(PathExpr("unresolved", None), <<call>>, Some(Unknown)))

Stmts == {StmtChain, StmtChainedCall, StmtUnresolved}

MaxStmts == 2

SeqsUpTo(S, n) == UNION {[1..k -> S] : k \in 1..n}

Files == {SourceFile(stmts) : stmts \in SeqsUpTo(Stmts, MaxStmts)}

-----------------------------------------------------------------------------
(* Requests for the hints of a file, under any of the flag configurations *)

Init ==
    /\ file \in Files
    /\ config \in FlagConfigs
    /\ pc = "loop"
    /\ iter = descendants(file)
    /\ res = <<>>
    /\ prev = None

Next == Visit \/ Return \/ NewRequest

Spec == Init /\ [][Next]_vars

-----------------------------------------------------------------------------
(* Vocabulary of the properties *)

\* the paths of the nodes of a tree
RECURSIVE NodePaths(_, _)
NodePaths(e, path) ==
    {path} \cup UNION {NodePaths(e.ch[i], Append(path, i)) :
                           i \in {j \in 1..Len(e.ch) : ~e.ch[j].tok}}

IsPrefix(p, q) == Len(p) <= Len(q) /\ SubSeq(q, 1, Len(p)) = p

\* document order: a node before its descendants, earlier siblings (and what is under
\* them) before later ones
DocBefore(p, q) ==
    \/ IsPrefix(p, q) /\ p # q
    \/ \E i \in 1..Min(Len(p), Len(q)) :
           /\ SubSeq(p, 1, i - 1) = SubSeq(q, 1, i - 1)
           /\ p[i] < q[i]

\* the argument expressions of a call: the expressions under its argument list
ArgsOfCall(f, call) ==
    LET e == ElemAt(f, call)
        lists == {i \in 1..Len(e.ch) : ~e.ch[i].tok /\ e.ch[i].kind = "ARG_LIST"}
    IN  IF lists = {} THEN {}
        ELSE LET l == CHOOSE i \in lists : \A j \in lists : i <= j
             IN  {Append(Append(call, l), k) :
                      k \in {m \in 1..Len(e.ch[l].ch) :
                                 ~e.ch[l].ch[m].tok /\ e.ch[l].ch[m].kind \in ExprKinds}}

\* the nodes a hint can come from: the expression or the binding of its range, the
\* call an argument of which has its range
Producers(f, h) ==
    {n \in NodePaths(f, <<>>) :
        CASE h.kind = "ChainingHint" ->
                 ElemAt(f, n).kind \in ExprKinds /\ text_range(f, n) = h.range
          [] h.kind = "TypeHint" ->
                 ElemAt(f, n).kind = "IDENT_PAT" /\ text_range(f, n) = h.range
          [] OTHER ->
                 /\ ElemAt(f, n).kind \in {"CALL_EXPR", "METHOD_CALL_EXPR"}
                 /\ \E a \in ArgsOfCall(f, n) : text_range(f, a) = h.range}

Encloses(r1, r2) == r1[1] <= r2[1] /\ r2[2] <= r1[2] /\ r1 # r2

Without(kind, hints) == SelectSeq(hints, LAMBDA h : h.kind # kind)

OfKind(kind, hints) == SelectSeq(hints, LAMBDA h : h.kind = kind)

RECURSIVE Flatten(_, _)
Flatten(seqs, i) == IF i > Len(seqs) THEN <<>> ELSE seqs[i] \o Flatten(seqs, i + 1)

-----------------------------------------------------------------------------
(* C1: the returned list is in the pre-order of the nodes the hints come from (a node
   before its descendants, earlier siblings before later ones): each hint and the next
   come from nodes in that order, or from one node, and then the chaining hint is
   before the parameter hints and these are in argument order; of two chaining hints
   one of which covers the other, the outer one comes first *)
C1_PreOrderOfProducers ==
    pc = "done" =>
        /\ \A i \in 1..(Len(res) - 1) :
               \E p \in Producers(file, res[i]), q \in Producers(file, res[i + 1]) :
                   \/ DocBefore(p, q)
                   \/ /\ p = q
                      /\ \/ res[i].kind = "ChainingHint" /\ res[i + 1].kind = "ParameterHint"
                         \/ /\ res[i].kind = "ParameterHint"
                            /\ res[i + 1].kind = "ParameterHint"
                            /\ res[i].range[1] < res[i + 1].range[1]
        /\ \A i, j \in 1..Len(res) :
               (i < j /\ res[i].kind = "ChainingHint" /\ res[j].kind = "ChainingHint")
                   => ~Encloses(res[j].range, res[i].range)

\* a returned list with the hint of an outer chained expression before the hint of the
\* inner one (so not sorted by range), and a chaining hint followed by the parameter
\* hints of the same call
C1_Witness ==
    /\ pc = "done"
    /\ \E i, j \in 1..Len(res) :
           /\ i < j
           /\ res[i].kind = "ChainingHint" /\ res[j].kind = "ChainingHint"
           /\ Encloses(res[i].range, res[j].range)
           /\ RangeLess(res[j].range, res[i].range)
    /\ \E i \in 1..Len(res) :
           /\ i + 2 <= Len(res)
           /\ res[i].kind = "ChainingHint"
           /\ res[i + 1].kind = "ParameterHint" /\ res[i + 2].kind = "ParameterHint"
           /\ Encloses(res[i].range, res[i + 1].range)
           /\ Encloses(res[i].range, res[i + 2].range)

-----------------------------------------------------------------------------
KindOfFlag(flag) ==
    CASE flag = "type_hints" -> "TypeHint"
      [] flag = "parameter_hints" -> "ParameterHint"
      [] flag = "chaining_hints" -> "ChainingHint"

Flags == {"type_hints", "parameter_hints", "chaining_hints"}

\* the two configurations differ in this flag alone, enabled in the first
OnlyFlagOff(on, off, flag) ==
    /\ on[flag] /\ ~off[flag]
    /\ \A g \in (DOMAIN on) \ {flag} : on[g] = off[g]

(* C2: of two requests for the same file whose configurations differ in one flag
   alone, the result with the flag disabled is the result with the flag enabled
   without the hints of that kind, the others unchanged and in the same order; with
   the three flags disabled the result is empty *)
C2_FlagRemovesExactlyItsKind ==
    pc = "done" =>
        /\ (~config.type_hints /\ ~config.parameter_hints /\ ~config.chaining_hints)
               => res = <<>>
        /\ prev.some =>
               \A flag \in Flags :
                   /\ OnlyFlagOff(prev.val.config, config, flag)
                          => res = Without(KindOfFlag(flag), prev.val.res)
                   /\ OnlyFlagOff(config, prev.val.config, flag)
                          => prev.val.res = Without(KindOfFlag(flag), res)

\* a second request with chaining hints switched off, after a first one that returned
\* chaining hints and others
C2_Witness ==
    /\ pc = "done"
    /\ prev.some
    /\ OnlyFlagOff(prev.val.config, config, "chaining_hints")
    /\ OfKind("ChainingHint", prev.val.res) # <<>>
    /\ res # <<>>
    /\ Len(res) < Len(prev.val.res)

-----------------------------------------------------------------------------
\* what the detectors give for one node, taken alone
HintsOfNode(f, cfg, node) ==
    LET kind == ElemAt(f, node).kind
    IN  (IF kind \in ExprKinds THEN get_chaining_hints(<<>>, f, cfg, node) ELSE <<>>)
            \o (IF kind \in {"CALL_EXPR", "METHOD_CALL_EXPR"}
                THEN get_param_name_hints(<<>>, f, cfg, node) ELSE <<>>)
            \o (IF kind = "IDENT_PAT" THEN get_bind_pat_hints(<<>>, f, cfg, node) ELSE <<>>)

(* C4: whatever detectors give nothing, every node of the tree is reached once and the
   returned list is the concatenation, in document order, of what the detectors give
   for each node taken alone *)
C4_ResultIsConcatenationOverAllNodes ==
    pc = "done" =>
        LET order == descendants(file)
        IN  /\ iter = <<>>
            /\ \A n \in NodePaths(file, <<>>) :
                   Cardinality({i \in 1..Len(order) : order[i] = n}) = 1
            /\ \A i \in 1..(Len(order) - 1) : DocBefore(order[i], order[i + 1])
            /\ res = Flatten([i \in 1..Len(order) |-> HintsOfNode(file, config, order[i])], 1)

\* a returned list with a hint of a node that comes after a call whose callee did not
\* resolve and after a binding of unknown type
C4_Witness ==
    /\ pc = "done"
    /\ config = DefaultConfig
    /\ \E n, m \in NodePaths(file, <<>>) :
           /\ ElemAt(file, n).kind = "CALL_EXPR" /\ ~get_callable(file, n).some
           /\ ElemAt(file, m).kind = "IDENT_PAT"
           /\ type_of_pat(file, m).some /\ is_unknown(type_of_pat(file, m).val)
           /\ \E i \in 1..Len(res) :
                  \E p \in Producers(file, res[i]) : DocBefore(n, p) /\ DocBefore(m, p)

-----------------------------------------------------------------------------
(* Requests for the hints of one call `callee(args)`: the parameter under scrutiny
   and its argument range over names and expressions that meet, or just miss, each
   of the heuristics of should_show_param_name_hint *)

MaxUnderscores == 2

RECURSIVE Underscores(_)
Underscores(k) == IF k = 0 THEN "" ELSE "_" \o Underscores(k - 1)

WithUnderscores(stems) == {Underscores(k) \o stem : k \in 0..MaxUnderscores, stem \in stems}

\* the names a parameter can bear: identifiers (`_` alone is a wildcard pattern)
ParamNames == WithUnderscores({"", "foo", "foo_bar", "x", "value", "ra_fixture_a"}) \ {"", "_"}

FnNames == {"foo", "_foo", "set_foo", "bar"}

RefExpr(inner) == WithTy(Node("REF_EXPR", <<Tok("AMP", "&")>> \o inner), Some(Ref(I32)))

Enum(name) == Adt("Enum", name, 0, <<"Keyword">>, "main", <<>>)

\* the arguments: a path, a borrow, a method call, a value of an enum type, and a
\* borrow the expression of which is missing
ArgExprs ==
    {PathExpr(text, Some(I32)) : text \in WithUnderscores({"foo", "foo_bar", "bar_foo", "bar"})}
        \cup {RefExpr(<<PathExpr(text, Some(I32))>>) : text \in {"foo", "_foo"}}
        \cup {MethodCallExpr(PathExpr("it", Some(I32)), <<>>, method, <<>>, None, Some(I32)) :
                  method \in {"foo", "get_foo"}}
        \cup {PathExpr("kind", Some(Enum(name))) : name \in {"Foo", "FooBar"}}
        \cup {RefExpr(<<>>)}

\* the parameter alone, first of two, second of two
Layouts == {"alone", "first", "second"}

CallOf(kind, fn_name, param_name, arg, layout) ==
    LET filler_param == ParamPat("zz")
        filler_arg == Literal("0", Some(I32))
        params == CASE layout = "alone" -> <<ParamPat(param_name)>>
                    [] layout = "first" -> <<ParamPat(param_name), filler_param>>
                    [] layout = "second" -> <<filler_param, ParamPat(param_name)>>
        args == CASE layout = "alone" -> <<arg>>
                  [] layout = "first" -> <<arg, filler_arg>>
                  [] layout = "second" -> <<filler_arg, arg>>
    IN  ExprStmt(CallExpr(PathExpr(fn_name, Some(FnDef(Callable(kind, fn_name, params)))),
                          args, Some(Unit)))

\* the calls of a function and of a closure, the parameter bearing one of param_names
HeuristicsFiles(param_names) ==
    {SourceFile(<<CallOf("Function", fn_name, param_name, arg, layout)>>) :
         fn_name \in FnNames, param_name \in param_names, arg \in ArgExprs, layout \in Layouts}
        \cup {SourceFile(<<CallOf("Closure", "foo", param_name, arg, layout)>>) :
                  param_name \in param_names, arg \in ArgExprs, layout \in Layouts}

\* one request, under the default configuration
InitOf(files) ==
    /\ file \in files
    /\ config = DefaultConfig
    /\ pc = "loop"
    /\ iter = descendants(file)
    /\ res = <<>>
    /\ prev = None

InitHeuristics == InitOf(HeuristicsFiles(ParamNames))

NextRequest == Visit \/ Return

SpecHeuristics == InitHeuristics /\ [][NextRequest]_vars

-----------------------------------------------------------------------------
\* the calls of the file the callee of which resolves
ResolvedCalls(f) ==
    {n \in NodePaths(f, <<>>) :
        /\ ElemAt(f, n).kind \in {"CALL_EXPR", "METHOD_CALL_EXPR"}
        /\ FirstChild(ElemAt(f, n), {"ARG_LIST"}).some
        /\ get_callable(f, n).some}

\* the arguments of a call, in order
ArgsInOrder(f, call) == ArgPaths(f, Append(call, FirstChild(ElemAt(f, call), {"ARG_LIST"}).val))

HasParamHint(hints, range, label) ==
    \E i \in 1..Len(hints) :
        hints[i].kind = "ParameterHint" /\ hints[i].range = range /\ hints[i].label = label

\* the conditions under which the hint of a parameter is withheld; repr is the text
\* of the argument that is compared with the name
WithheldGiven(f, callable, name, position, argument, repr) ==
    LET p == TrimStartMatches(name, "_")
        callee == IF callable.kind = "Function" THEN Some(callable.name) ELSE None
        arg_ty == type_of_expr(f, argument)
    IN  \/ p = ""
        \/ callee.some /\ p = TrimStartMatches(callee.val, "_")
        \/ repr.some /\ (StartsWith(repr.val, p) \/ EndsWith(repr.val, p))
        \/ /\ arg_ty.some /\ arg_ty.val.ctor = "Adt" /\ arg_ty.val.adt.kind = "Enum"
           /\ to_lower_snake_case(arg_ty.val.adt.name) = p
        \/ position = 0 /\ callee.some /\ (callee.val = p \/ EndsWith(callee.val, "_" \o p))
        \/ StartsWith(p, "ra_fixture")
        \/ Len(callable.params) = 1
               /\ (Len(p) = 1 \/ p \in {"predicate", "value", "pat", "rhs", "other"})

\* the argument's textual representation: the method name of a method call, that of
\* the borrowed expression of a reference, else the source text
TextualRepresentation(f, argument) == get_string_representation(f, argument)

StrippedRepresentation(f, argument) ==
    LET repr == TextualRepresentation(f, argument)
    IN  IF repr.some THEN Some(TrimStartMatches(repr.val, "_")) ELSE None

\* for every parameter that is paired with an argument: hinted iff not withheld
HintedIffNotWithheld(withheld(_, _, _, _, _)) ==
    pc = "done" =>
        \A call \in ResolvedCalls(file) :
            LET callable == get_callable(file, call).val
                args == ArgsInOrder(file, call)
            IN  \A i \in 1..Min(Len(callable.params), Len(args)) :
                    LET name == ParamName(callable.params[i])
                    IN  name.some =>
                            (HasParamHint(res, text_range(file, args[i]), name.val)
                                 <=> ~withheld(file, callable, name.val, i - 1, args[i]))

WithheldAsClaimed(f, callable, name, position, argument) ==
    WithheldGiven(f, callable, name, position, argument, TextualRepresentation(f, argument))

WithheldAmended(f, callable, name, position, argument) ==
    WithheldGiven(f, callable, name, position, argument, StrippedRepresentation(f, argument))

(* C5 as claimed: the hint of a paired parameter is withheld iff p, the name without
   its leading underscores, is empty, or is the callee's name so stripped, or the
   textual representation of the argument starts or ends with p, or the argument is of
   an enum the snake-cased name of which is p, or the position is 0 and the callee's
   name is p or ends with `_` and p, or p starts with `ra_fixture`, or the callable
   has one parameter and p is one character or an obvious word *)
C5_AsClaimed == HintedIffNotWithheld(WithheldAsClaimed)

(* C5, amended: the same, the textual representation of the argument being compared
   with p after its own leading underscores are removed *)
C5_WithheldIffHeuristic == HintedIffNotWithheld(WithheldAmended)

\* a call of a function of two parameters the first of which, `foo`, is withheld for
\* the argument `_foo_bar` alone: stripped, it starts with `foo`
C5_Witness ==
    /\ pc = "done"
    /\ \E call \in ResolvedCalls(file) :
           LET callable == get_callable(file, call).val
               args == ArgsInOrder(file, call)
           IN  /\ callable.kind = "Function" /\ callable.name = "bar"
               /\ Len(callable.params) = 2
               /\ ParamName(callable.params[1]) = Some("foo")
               /\ Text(ElemAt(file, args[1])) = "_foo_bar"
               /\ ~HasParamHint(res, text_range(file, args[1]), "foo")
               /\ HasParamHint(res, text_range(file, args[2]), "zz")

\* the number of underscores a name begins with
LeadingUnderscores(name) ==
    CHOOSE k \in 0..Len(name) :
        /\ \A i \in 1..k : SubSeq(name, i, i) = "_"
        /\ k < Len(name) => SubSeq(name, k + 1, k + 1) # "_"

\* the name without the first k of its characters
Behind(k, name) == SubSeq(name, k + 1, Len(name))

Stem(name) == Behind(LeadingUnderscores(name), name)

\* the conditions under which the hint of a parameter is withheld, p being what the
\* rules take for its name
WithheldFor(f, callable, p, position, argument) ==
    LET callee == IF callable.kind = "Function" THEN Some(callable.name) ELSE None
        repr == TextualRepresentation(f, argument)
        arg_ty == type_of_expr(f, argument)
    IN  \/ p = ""
        \/ callee.some /\ p = Stem(callee.val)
        \/ repr.some /\ (StartsWith(Stem(repr.val), p) \/ EndsWith(Stem(repr.val), p))
        \/ /\ arg_ty.some /\ arg_ty.val.ctor = "Adt" /\ arg_ty.val.adt.kind = "Enum"
           /\ to_lower_snake_case(arg_ty.val.adt.name) = p
        \/ position = 0 /\ callee.some /\ (callee.val = p \/ EndsWith(callee.val, "_" \o p))
        \/ StartsWith(p, "ra_fixture")
        \/ Len(callable.params) = 1
               /\ (Len(p) = 1 \/ p \in {"predicate", "value", "pat", "rhs", "other"})

WithheldStrippingOne(f, callable, name, position, argument) ==
    WithheldFor(f, callable, Behind(Min(1, LeadingUnderscores(name)), name), position, argument)

WithheldStrippingAll(f, callable, name, position, argument) ==
    WithheldFor(f, callable, Stem(name), position, argument)

(* C16 as claimed: the rules take the parameter name without one leading underscore:
   of the names of underscores alone only `_` is suppressed as empty, and `__param` is
   compared with the callee's name and the argument's text as `_param` *)
C16_AsClaimed == HintedIffNotWithheld(WithheldStrippingOne)

(* C16, amended: the rules take the parameter name without any of its leading
   underscores: every name of underscores alone is suppressed as empty, and `__param`
   is compared with the callee's name and the argument's text as `param` *)
C16_EveryLeadingUnderscoreIsStripped ==
    /\ HintedIffNotWithheld(WithheldStrippingAll)
    /\ pc = "done" =>
           \A call \in ResolvedCalls(file) :
               \A i \in 1..Min(Len(get_callable(file, call).val.params),
                               Len(ArgsInOrder(file, call))) :
                   LET name == ParamName(get_callable(file, call).val.params[i])
                   IN  (name.some /\ Stem(name.val) = "")
                           => ~HasParamHint(res, text_range(file, ArgsInOrder(file, call)[i]),
                                            name.val)

\* `bar(foo, 0)` with fn bar(__foo, zz) is done: `__foo` is withheld for the argument
\* `foo`, which neither starts nor ends with `_foo`, and `zz` is hinted
C16_Witness ==
    /\ pc = "done"
    /\ \E call \in ResolvedCalls(file) :
           LET callable == get_callable(file, call).val
               args == ArgsInOrder(file, call)
           IN  /\ callable.kind = "Function" /\ callable.name = "bar"
               /\ Len(callable.params) = 2
               /\ ParamName(callable.params[1]) = Some("__foo")
               /\ LeadingUnderscores("__foo") = 2
               /\ Text(ElemAt(file, args[1])) = "foo"
               /\ ~HasParamHint(res, text_range(file, args[1]), "__foo")
               /\ HasParamHint(res, text_range(file, args[2]), "zz")

-----------------------------------------------------------------------------
(* Requests for the hints of one call the callable of which declares up to MaxParams
   parameters, named or not, and which is given up to MaxArgs arguments *)

MaxParams == 3

MaxArgs == 3

\* a named parameter bears the name of the position it is declared at
PositionNames == <<"first", "second", "third", "fourth", "fifth">>

\* the literal an argument is tells the position it is supplied at
PositionLiterals == <<"1", "2", "3", "4", "5">>

\* a parameter that destructures a tuple
TupleParamPat ==
    Some([left |-> FALSE,
          node |-> Node("TUPLE_PAT", <<Tok("L_PAREN", "("), IdentPat("a", None), Tok("COMMA", ","),
                                       IdentPat("b", None), Tok("R_PAREN", ")")>>)])

\* an identifier pattern the name of which is missing
NamelessParamPat == Some([left |-> FALSE, node |-> Node("IDENT_PAT", <<Tok("REF_KW", "ref")>>)])

\* what callable.params(db) holds at a position: no source (None), a named binding,
\* a destructuring pattern, a binding without a name
ParamAt(shape, i) ==
    CASE shape = "none" -> None
      [] shape = "named" -> ParamPat(PositionNames[i])
      [] shape = "tuple" -> TupleParamPat
      [] shape = "nameless" -> NamelessParamPat

ParamShapes == {"none", "named", "tuple", "nameless"}

\* the parameter lists of at most n parameters; with_self: the receiver comes first
ParamLists(n, with_self) ==
    LET offset == IF with_self THEN 1 ELSE 0
        self == IF with_self THEN <<SelfParam("self")>> ELSE <<>>
    IN  IF n < offset THEN {}
        ELSE {self \o [i \in 1..Len(shapes) |-> ParamAt(shapes[i], i + offset)] :
                  shapes \in {<<>>} \cup SeqsUpTo(ParamShapes, n - offset)}

ArgsUpTo(n) == {[i \in 1..k |-> Literal(PositionLiterals[i], Some(I32))] : k \in 0..n}

\* `f(1, 2)` of a function, the receiver of which is among its parameters when it has
\* one, and `t.m(1, 2)` of a method, the receiver of which is not
PairingCalls(max_params, max_args) ==
    {ExprStmt(CallExpr(PathExpr("f", Some(FnDef(Callable("Function", "f", params)))),
                       args, Some(Unit))) :
         params \in ParamLists(max_params, FALSE) \cup ParamLists(max_params, TRUE),
         args \in ArgsUpTo(max_args)}
        \cup {ExprStmt(MethodCallExpr(PathExpr("t", Some(I32)), <<>>, "m", args,
                                      Some(Callable("Function", "m", params)), Some(Unit))) :
                  params \in ParamLists(max_params, FALSE), args \in ArgsUpTo(max_args)}

PairingFiles(max_params, max_args) ==
    {SourceFile(<<call>>) : call \in PairingCalls(max_params, max_args)}

InitPairing == InitOf(PairingFiles(MaxParams, MaxArgs))

SpecPairing == InitPairing /\ [][NextRequest]_vars

\* the parameter hints of the result that lie on an argument of the call
ParamHintsOn(f, call, hints) ==
    {k \in 1..Len(hints) :
        /\ hints[k].kind = "ParameterHint"
        /\ \E i \in 1..Len(ArgsInOrder(f, call)) :
               hints[k].range = text_range(f, ArgsInOrder(f, call)[i])}

(* C6: a parameter hint lies on the i-th argument of a call, i being at most the number
   of parameters and that of arguments, and bears the name of the i-th declared
   parameter, whatever the parameters before it are; a call of m parameters and n
   arguments has at most min(m, n) parameter hints *)
C6_PairedByPosition ==
    pc = "done" =>
        /\ \A k \in 1..Len(res) :
               res[k].kind = "ParameterHint" =>
                   \E call \in ResolvedCalls(file) :
                       LET params == get_callable(file, call).val.params
                           args == ArgsInOrder(file, call)
                       IN  \E i \in 1..Min(Len(params), Len(args)) :
                               /\ res[k].range = text_range(file, args[i])
                               /\ params[i].some
                               /\ res[k].label = IF params[i].val.left THEN "self"
                                                 ELSE PositionNames[i]
                               /\ Text(ElemAt(file, args[i])) = PositionLiterals[i]
        /\ \A call \in ResolvedCalls(file) :
               Cardinality(ParamHintsOn(file, call, res))
                   <= Min(Len(get_callable(file, call).val.params), Len(ArgsInOrder(file, call)))

\* a call of three arguments of a function of two parameters the first of which
\* destructures: the second argument alone is hinted, with the name of the second
\* parameter
C6_Witness ==
    /\ pc = "done"
    /\ \E call \in ResolvedCalls(file) :
           LET params == get_callable(file, call).val.params
               args == ArgsInOrder(file, call)
           IN  /\ Len(params) = 2 /\ Len(args) = 3
               /\ params[1] = TupleParamPat
               /\ OfKind("ParameterHint", res)
                      = <<InlayHint(text_range(file, args[2]), "ParameterHint", "second")>>

-----------------------------------------------------------------------------
(* Requests for the hints of one binding: a pattern of some text and type, held by a
   let statement, a closure parameter, a match arm, the condition of an if or a while,
   or a for loop, which up to MaxEnclosing further contexts enclose *)

MaxEnclosing == 1

\* `mut name`
MutIdentPat(name, ty) ==
    WithTy(Node("IDENT_PAT", <<Tok("MUT_KW", "mut"), WS, Name(name)>>), ty)

\* enum E { A, B }
EnumE == Adt("Enum", "E", 0, <<"A", "B">>, "main", <<>>)

\* what sema.type_of_pat answers for the binding: nothing, {unknown}, the unit struct
\* S, the enum E, i32
BindTys == {None, Some(Unknown), Some(Struct("S", 0)), Some(EnumE), Some(I32)}

BindPats ==
    {IdentPat(text, ty) : text \in {"x", "S", "A"}, ty \in BindTys}
        \cup {MutIdentPat("A", ty) : ty \in BindTys}

Block(stmts) ==
    Node("BLOCK_EXPR", <<Tok("L_CURLY", "{")>> \o Lines(stmts, 1) \o <<WS, Tok("R_CURLY", "}")>>)

\* `|pat| 0` or `|pat: T| 0`
ClosureExpr(pat, ascribed) ==
    Node("CLOSURE_EXPR",
         <<Node("PARAM_LIST",
                <<Tok("PIPE", "|"),
                  Node("PARAM", <<pat>> \o (IF ascribed.some
                                            THEN <<Tok("COLON", ":"), WS, ascribed.val>>
                                            ELSE <<>>)),
                  Tok("PIPE", "|")>>),
           WS, Literal("0", Some(I32))>>)

TupleStructPat(name, pat) ==
    Node("TUPLE_STRUCT_PAT",
         <<Node("PATH", <<Node("PATH_SEGMENT", <<NameRef(name)>>)>>),
           Tok("L_PAREN", "("), pat, Tok("R_PAREN", ")")>>)

\* `match s { pat => 0 }`
MatchExpr(pat) ==
    Node("MATCH_EXPR",
         <<Tok("MATCH_KW", "match"), WS, PathExpr("s", Some(EnumE)), WS,
           Node("MATCH_ARM_LIST",
                <<Tok("L_CURLY", "{"), WS,
                  Node("MATCH_ARM", <<pat, WS, Tok("FAT_ARROW", "=>"), WS, Literal("0", Some(I32))>>),
                  WS, Tok("R_CURLY", "}")>>)>>)

\* `let pat = s`, the condition of an if let or a while let
LetCondition(pat) ==
    Node("CONDITION", <<Tok("LET_KW", "let"), WS, pat, WS, Tok("EQ", "="), WS,
                        PathExpr("s", Some(EnumE))>>)

\* `c`, a condition without a pattern
ExprCondition == Node("CONDITION", <<PathExpr("c", Some(Scalar("bool")))>>)

IfExpr(condition, stmts) ==
    Node("IF_EXPR", <<Tok("IF_KW", "if"), WS, condition, WS, Block(stmts)>>)

WhileExpr(condition, stmts) ==
    Node("WHILE_EXPR", <<Tok("WHILE_KW", "while"), WS, condition, WS, Block(stmts)>>)

\* `for pat`, `for pat in`, `for pat in iterable { stmts }`
ForExpr(pat, rest) == Node("FOR_EXPR", <<Tok("FOR_KW", "for"), WS, pat>> \o rest)

ForIn(pat, iterable_ty, stmts) ==
    ForExpr(pat, <<WS, Tok("IN_KW", "in"), WS, PathExpr("data", iterable_ty), WS, Block(stmts)>>)

Holders ==
    {"let", "let_typed", "param", "param_typed", "arm", "arm_some", "if_let", "while_let",
     "for_no_in", "for_no_iterable", "for_unresolved", "for_unknown", "for_unit",
     "for_known", "none"}

\* the statement that holds the binding pattern; "none": the pattern stands alone, as
\* in a tree that is put together and not parsed
Held(holder, pat) ==
    CASE holder = "let" -> LetStmt(pat, None, Literal("0", Some(I32)))
      [] holder = "let_typed" -> LetStmt(pat, Some(PathType("T")), Literal("0", Some(I32)))
      [] holder = "param" -> ExprStmt(ClosureExpr(pat, None))
      [] holder = "param_typed" -> ExprStmt(ClosureExpr(pat, Some(PathType("T"))))
      [] holder = "arm" -> ExprStmt(MatchExpr(pat))
      [] holder = "arm_some" -> ExprStmt(MatchExpr(TupleStructPat("Some", pat)))
      [] holder = "if_let" -> ExprStmt(IfExpr(LetCondition(pat), <<>>))
      [] holder = "while_let" -> ExprStmt(WhileExpr(LetCondition(pat), <<>>))
      [] holder = "for_no_in" -> ExprStmt(ForExpr(pat, <<>>))
      [] holder = "for_no_iterable" -> ExprStmt(ForExpr(pat, <<WS, Tok("IN_KW", "in")>>))
      [] holder = "for_unresolved" -> ExprStmt(ForIn(pat, None, <<>>))
      [] holder = "for_unknown" -> ExprStmt(ForIn(pat, Some(Unknown), <<>>))
      [] holder = "for_unit" -> ExprStmt(ForIn(pat, Some(Unit), <<>>))
      [] holder = "for_known" -> ExprStmt(ForIn(pat, Some(Struct("Vec", 1)), <<>>))
      [] holder = "none" -> Node("ERROR", <<pat>>)

Enclosings == {"let_typed", "if", "for_unknown"}

\* a context around a statement: `let y: T = { stmt };`, `if c { stmt }`,
\* `for _ in data { stmt }` with data of an unknown type
Enclosed(enclosing, stmt) ==
    CASE enclosing = "let_typed" ->
             LetStmt(IdentPat("y", None), Some(PathType("T")), Block(<<stmt>>))
      [] enclosing = "if" -> ExprStmt(IfExpr(ExprCondition, <<stmt>>))
      [] enclosing = "for_unknown" ->
             ExprStmt(ForIn(Node("WILDCARD_PAT", <<Tok("UNDERSCORE", "_")>>), Some(Unknown),
                            <<stmt>>))

\* the contexts of a sequence around a statement, the first innermost
RECURSIVE EnclosedIn(_, _, _)
EnclosedIn(enclosings, i, stmt) ==
    IF i > Len(enclosings) THEN stmt
    ELSE EnclosedIn(enclosings, i + 1, Enclosed(enclosings[i], stmt))

BindFiles(max_enclosing) ==
    {SourceFile(<<EnclosedIn(enclosings, 1, Held(holder, pat))>>) :
         pat \in BindPats, holder \in Holders,
         enclosings \in {<<>>} \cup SeqsUpTo(Enclosings, max_enclosing)}

InitBind == InitOf(BindFiles(MaxEnclosing))

SpecBind == InitBind /\ [][NextRequest]_vars

-----------------------------------------------------------------------------
(* Vocabulary of the properties of bindings *)

Bindings(f) == {n \in NodePaths(f, <<>>) : ElemAt(f, n).kind = "IDENT_PAT"}

ContextKinds == {"LET_STMT", "PARAM", "MATCH_ARM", "IF_EXPR", "WHILE_EXPR", "FOR_EXPR"}

\* the nearest ancestor of a binding that is a context, None when it has none
NearestContext(f, b) ==
    LET depths == {k \in 0..Len(b) : ElemAt(f, SubSeq(b, 1, k)).kind \in ContextKinds}
    IN  IF depths = {} THEN None
        ELSE Some(SubSeq(b, 1, CHOOSE k \in depths : \A j \in depths : j <= k))

NearestContextIs(f, b, kinds) ==
    NearestContext(f, b).some /\ ElemAt(f, NearestContext(f, b).val).kind \in kinds

HasTypeHint(f, b, hints) ==
    \E i \in 1..Len(hints) : hints[i].kind = "TypeHint" /\ hints[i].range = text_range(f, b)

TypeHintLabel(f, b, hints) ==
    hints[CHOOSE i \in 1..Len(hints) :
              hints[i].kind = "TypeHint" /\ hints[i].range = text_range(f, b)].label

\* the type of the binding is resolved and known
TypeIsKnown(f, b) == ElemAt(f, b).ty.some /\ ElemAt(f, b).ty.val.ctor # "Unknown"

\* the type of the binding is a struct without fields the name of which is the text
\* of the binding pattern
IsUnitStructOfItsName(f, b) ==
    LET ty == ElemAt(f, b).ty
    IN  /\ ty.some /\ ty.val.ctor = "Adt" /\ ty.val.adt.kind = "Struct"
        /\ ty.val.adt.nfields = 0 /\ ty.val.adt.name = Text(ElemAt(f, b))

VariantsOfType(f, b) ==
    LET ty == ElemAt(f, b).ty
    IN  IF ty.some /\ ty.val.ctor = "Adt" /\ ty.val.adt.kind = "Enum"
        THEN {ty.val.adt.variants[i] : i \in 1..Len(ty.val.adt.variants)}
        ELSE {}

\* the name the pattern binds
BindingName(f, b) ==
    LET names == {i \in 1..Len(ElemAt(f, b).ch) : ElemAt(f, b).ch[i].kind = "NAME"}
    IN  Text(ElemAt(f, b).ch[CHOOSE i \in names : TRUE])

NameIsVariant(f, b) == BindingName(f, b) \in VariantsOfType(f, b)

\* the text of the whole pattern, `mut` and `ref` included
TextIsVariant(f, b) == Text(ElemAt(f, b)) \in VariantsOfType(f, b)

\* the condition of the if or while has a pattern
GuardHasPattern(f, ctx) ==
    \E i \in 1..Len(ElemAt(f, ctx).ch) :
        /\ ElemAt(f, ctx).ch[i].kind = "CONDITION"
        /\ \E j \in 1..Len(ElemAt(f, ctx).ch[i].ch) : ElemAt(f, ctx).ch[i].ch[j].kind \in PatKinds

HasDeclaredType(f, ctx) ==
    \E i \in 1..Len(ElemAt(f, ctx).ch) : ElemAt(f, ctx).ch[i].kind \in TypeKinds

\* the loop has no `in`, or no iterable expression, or one the type of which is
\* unresolved, unknown or unit
LoopIsDegenerate(f, ctx) ==
    LET loop == ElemAt(f, ctx)
        exprs == {i \in 1..Len(loop.ch) : ~loop.ch[i].tok /\ loop.ch[i].kind \in ExprKinds}
        iterable == loop.ch[CHOOSE i \in exprs : \A j \in exprs : i <= j]
    IN  \/ \A i \in 1..Len(loop.ch) : loop.ch[i].kind # "IN_KW"
        \/ exprs = {}
        \/ ~iterable.ty.some
        \/ iterable.ty.val.ctor = "Unknown"
        \/ iterable.ty.val = Unit

\* the checks that come before the contexts are looked at
PassesFirstChecks(f, b) == TypeIsKnown(f, b) /\ ~IsUnitStructOfItsName(f, b)

\* the verdict of a context on a binding
SuppressedBy(f, b, ctx) ==
    LET kind == ElemAt(f, ctx).kind
    IN  CASE kind \in {"LET_STMT", "PARAM"} -> HasDeclaredType(f, ctx)
          [] kind = "MATCH_ARM" -> TextIsVariant(f, b)
          [] kind \in {"IF_EXPR", "WHILE_EXPR"} -> GuardHasPattern(f, ctx) /\ TextIsVariant(f, b)
          [] kind = "FOR_EXPR" -> LoopIsDegenerate(f, ctx)

(* C7 as claimed: a binding the nearest context of which is a match arm is hinted iff
   its name is the name of a variant of the enum that is its type *)
C7_AsClaimed ==
    pc = "done" =>
        \A b \in Bindings(file) :
            NearestContextIs(file, b, {"MATCH_ARM"}) =>
                (HasTypeHint(file, b, res) <=> NameIsVariant(file, b))

(* C7, amended: a binding the nearest context of which is a match arm is hinted iff
   its type is resolved and known, is not a struct without fields named as the text
   of the pattern, and the text of the pattern is not the name of a variant of the
   enum that is its type *)
C7_MatchArmSuppressesVariantNames ==
    pc = "done" =>
        \A b \in Bindings(file) :
            NearestContextIs(file, b, {"MATCH_ARM"}) =>
                (HasTypeHint(file, b, res)
                     <=> PassesFirstChecks(file, b) /\ ~TextIsVariant(file, b))

\* `match s { x => 0 }` with x of the enum E, which has no variant x, is hinted `E`
C7_Witness ==
    /\ pc = "done"
    /\ \E b \in Bindings(file) :
           /\ NearestContextIs(file, b, {"MATCH_ARM"})
           /\ ElemAt(file, b).ty = Some(EnumE)
           /\ Text(ElemAt(file, b)) = "x"
           /\ HasTypeHint(file, b, res)
           /\ TypeHintLabel(file, b, res) = "E"

(* C8 as claimed: a binding the nearest context of which is an if or a while is
   hinted iff the condition has a pattern and the name of the binding is the name of a
   variant of the enum that is its type *)
C8_AsClaimed ==
    pc = "done" =>
        \A b \in Bindings(file) :
            NearestContextIs(file, b, {"IF_EXPR", "WHILE_EXPR"}) =>
                (HasTypeHint(file, b, res)
                     <=> GuardHasPattern(file, NearestContext(file, b).val)
                             /\ NameIsVariant(file, b))

(* C8, amended: a binding the nearest context of which is an if or a while is hinted
   iff its type is resolved and known, is not a struct without fields named as the
   text of the pattern, and it is not so that the condition has a pattern and the text
   of the binding pattern is the name of a variant of the enum that is its type *)
C8_GuardSuppressesVariantNames ==
    pc = "done" =>
        \A b \in Bindings(file) :
            NearestContextIs(file, b, {"IF_EXPR", "WHILE_EXPR"}) =>
                (HasTypeHint(file, b, res)
                     <=> /\ PassesFirstChecks(file, b)
                         /\ ~(GuardHasPattern(file, NearestContext(file, b).val)
                                  /\ TextIsVariant(file, b)))

\* `while let A = s {}` with A of the enum E is not hinted
C8_Witness ==
    /\ pc = "done"
    /\ \E b \in Bindings(file) :
           /\ NearestContextIs(file, b, {"WHILE_EXPR"})
           /\ GuardHasPattern(file, NearestContext(file, b).val)
           /\ ElemAt(file, b).ty = Some(EnumE)
           /\ Text(ElemAt(file, b)) = "A"
           /\ ~HasTypeHint(file, b, res)

(* C9 as claimed: a binding the nearest context of which is a for loop is not hinted
   iff the loop has no `in` or no iterable expression or the type of the iterable is
   unresolved, unknown or unit; a hint that is shown bears the type of the binding *)
C9_AsClaimed ==
    pc = "done" =>
        \A b \in Bindings(file) :
            NearestContextIs(file, b, {"FOR_EXPR"}) =>
                /\ ~HasTypeHint(file, b, res) <=> LoopIsDegenerate(file, NearestContext(file, b).val)
                /\ HasTypeHint(file, b, res) =>
                       TypeHintLabel(file, b, res) = display_truncated(ElemAt(file, b).ty.val, None)

(* C9, amended: a binding the nearest context of which is a for loop, and the type of
   which is resolved, known and not a struct without fields named as the text of the
   pattern, is not hinted iff the loop has no `in` or no iterable expression or the
   type of the iterable is unresolved, unknown or unit; a binding the type of which
   is not so is not hinted; a hint that is shown bears the type of the binding *)
C9_ForLoopSuppressesIffDegenerate ==
    pc = "done" =>
        \A b \in Bindings(file) :
            NearestContextIs(file, b, {"FOR_EXPR"}) =>
                /\ HasTypeHint(file, b, res)
                       <=> /\ PassesFirstChecks(file, b)
                           /\ ~LoopIsDegenerate(file, NearestContext(file, b).val)
                /\ HasTypeHint(file, b, res) =>
                       TypeHintLabel(file, b, res) = display_truncated(ElemAt(file, b).ty.val, None)

\* `for x in data {}` with data of a known type and x of type i32 is hinted `i32`
C9_Witness ==
    /\ pc = "done"
    /\ \E b \in Bindings(file) :
           /\ NearestContextIs(file, b, {"FOR_EXPR"})
           /\ ~LoopIsDegenerate(file, NearestContext(file, b).val)
           /\ ElemAt(file, b).ty = Some(I32)
           /\ HasTypeHint(file, b, res)
           /\ TypeHintLabel(file, b, res) = "i32"

(* C10 as claimed: a binding of a resolved, known type the nearest context of which
   is a let statement or a parameter is hinted iff that context declares no type,
   and one without any context is hinted *)
C10_AsClaimed ==
    pc = "done" =>
        \A b \in Bindings(file) :
            TypeIsKnown(file, b) =>
                /\ NearestContextIs(file, b, {"LET_STMT", "PARAM"}) =>
                       (HasTypeHint(file, b, res)
                            <=> ~HasDeclaredType(file, NearestContext(file, b).val))
                /\ ~NearestContext(file, b).some => HasTypeHint(file, b, res)

(* C10, amended: a binding of a resolved, known type that is not a struct without
   fields named as the text of the pattern is hinted iff its nearest context, if it
   has one, does not suppress it, whatever the contexts farther up: a let statement or
   a parameter suppresses iff it declares a type; a binding the type of which is such
   a struct is not hinted *)
C10_NearestContextDecides ==
    pc = "done" =>
        \A b \in Bindings(file) :
            TypeIsKnown(file, b) =>
                (HasTypeHint(file, b, res)
                     <=> /\ ~IsUnitStructOfItsName(file, b)
                         /\ NearestContext(file, b).some
                                => ~SuppressedBy(file, b, NearestContext(file, b).val))

\* `let y: T = { |x| 0; };`: the parameter x, of type i32, is hinted inside the let
\* statement that declares a type
C10_Witness ==
    /\ pc = "done"
    /\ \E b \in Bindings(file) :
           /\ NearestContextIs(file, b, {"PARAM"})
           /\ ~HasDeclaredType(file, NearestContext(file, b).val)
           /\ \E k \in 0..Len(b) :
                  /\ ElemAt(file, SubSeq(b, 1, k)).kind = "LET_STMT"
                  /\ HasDeclaredType(file, SubSeq(b, 1, k))
           /\ ElemAt(file, b).ty = Some(I32)
           /\ HasTypeHint(file, b, res)

-----------------------------------------------------------------------------
(* Requests under a maximum length of up to MaxLength: one statement that binds a
   value of some type, or chains a call on one, or calls a function *)

MaxLength == 31

Smol(t) == Adt("Struct", "Smol", 1, <<>>, "main", <<t>>)

VeryLongOuterName(t) == Adt("Struct", "VeryLongOuterName", 1, <<>>, "main", <<t>>)

\* a struct of the crate krate that implements Iterator, Item being item
IteratorOf(name, krate, args, item) ==
    [Adt("Struct", name, 1, <<>>, krate, args) EXCEPT !.impls_iter = TRUE, !.item = Some(item)]

\* iter::repeat(0)
RepeatI32 == IteratorOf("Repeat", "core", <<I32>>, I32)

\* `&mut I`, which implements Iterator where I does (impl Iterator for &mut I), with
\* the same Item; `&I`, built by Ref, never implements it
RefMut(ty) ==
    [Ty("Ref", "", <<ty>>) EXCEPT !.mutbl = TRUE, !.impls_iter = ty.impls_iter, !.item = ty.item]

\* the types of tests::hint_truncation and tests::shorten_iterator_hints, a tuple, a
\* reference, an iterator the items of which are of a nested type, and references to
\* iterators
LabelTys ==
    {I32,
     Smol(Scalar("u32")),
     VeryLongOuterName(Scalar("usize")),
     Smol(Smol(Scalar("u32"))),
     Ty("Tuple", "", <<I32, Scalar("char")>>),
     Ref(Smol(Smol(Scalar("u32")))),
     IteratorOf("MyIter", "main", <<>>, Unit),
     RepeatI32,
     IteratorOf("Take", "core", <<RepeatI32>>, Smol(Smol(Scalar("u32")))),
     RefMut(RepeatI32),
     RefMut(RefMut(RepeatI32)),
     Ref(RepeatI32),
     RefMut(IteratorOf("MyIter", "main", <<>>, Unit))}

\* let a = 0;
StmtLetOf(ty) == LetStmt(IdentPat("a", Some(ty)), None, Literal("0", Some(I32)))

\* make()
\*     .next();
StmtChainOn(ty) ==
    ExprStmt(MethodCallExpr(CallExpr(PathExpr("make", Some(FnDef(Callable("Function", "make", <<>>)))),
                                     <<>>, Some(ty)),
                            <<NL>>, "next", <<>>, Some(Callable("Function", "next", <<>>)),
                            Some(I32)))

\* f(1, 2);       with fn f(name: i32, zz: i32)
StmtCallWith(name) ==
    ExprStmt(CallExpr(PathExpr("f", Some(FnDef(Callable("Function", "f",
                                                         <<ParamPat(name), ParamPat("zz")>>)))),
                      <<Literal("1", Some(I32)), Literal("2", Some(I32))>>, Some(Unit)))

LabelFiles ==
    {SourceFile(<<StmtLetOf(ty)>>) : ty \in LabelTys}
        \cup {SourceFile(<<StmtChainOn(ty)>>) : ty \in LabelTys}
        \cup {SourceFile(<<StmtCallWith(name)>>) : name \in {"n", "a_rather_long_parameter_name"}}

\* one request with every hint enabled and a maximum length
InitLabel ==
    /\ file \in LabelFiles
    /\ config \in {InlayHintsConfig(TRUE, TRUE, TRUE, Some(len)) : len \in 0..MaxLength}
    /\ pc = "loop"
    /\ iter = descendants(file)
    /\ res = <<>>
    /\ prev = None

SpecLabel == InitLabel /\ [][NextRequest]_vars

\* the text the renderer of types gives for a type under a maximum length
Rendered(ty, max_length) == display_truncated(ty, Some(max_length))

FullText(ty) == display_truncated(ty, None)

\* the type, under its references, is a struct of the crate `core`, where the trait
\* Iterator is public and has an Item, and the type implements it with a known Item
IsCoreIterator(ty) ==
    LET strukt == StripRefs(ty)
    IN  /\ strukt.ctor = "Adt"
        /\ strukt.adt.krate.some
        /\ strukt.adt.krate.val.declaration_name = Some("core")
        /\ strukt.adt.krate.val.core_iter_Iterator
        /\ strukt.adt.krate.val.core_iter
        /\ strukt.adt.krate.val.visibility_of_Iterator = Some("Public")
        /\ strukt.adt.krate.val.has_Item
        /\ ty.impls_iter
        /\ ty.item.some

WrapperLength == Len("impl Iterator<Item = ") + Len(">")

ExpectedLabel(ty, max_length) ==
    IF IsCoreIterator(ty)
    THEN "impl Iterator<Item = "
             \o Rendered(ty.item.val,
                         IF max_length >= WrapperLength THEN max_length - WrapperLength ELSE 0)
             \o ">"
    ELSE Rendered(ty, max_length)

(* C3 as claimed: under a maximum length L the label of every hint is at most L long *)
C3_AsClaimed ==
    (pc = "done" /\ config.max_length.some) =>
        \A k \in 1..Len(res) : Len(res[k].label) <= config.max_length.val

(* C3, amended: under a maximum length L the label of a parameter hint is the name of
   the parameter in full; the label of a type or chaining hint is the text the renderer
   of types gives for the type under L or, for an iterator of core, that of its Item
   under L less the length of `impl Iterator<Item = ` and `>`, and not less than 0,
   between the two; the label of a type that is no such iterator is the full text of
   the type, and at most L long, when the full text is at most L long *)
C3_LabelsFollowTheRenderer ==
    (pc = "done" /\ config.max_length.some) =>
        \A k \in 1..Len(res) :
            IF res[k].kind = "ParameterHint"
            THEN \E call \in ResolvedCalls(file) :
                     \E i \in 1..Len(ArgsInOrder(file, call)) :
                         /\ res[k].range = text_range(file, ArgsInOrder(file, call)[i])
                         /\ get_callable(file, call).val.params[i]
                                = ParamPat(res[k].label)
            ELSE \E n \in Producers(file, res[k]) :
                     LET ty == ElemAt(file, n).ty
                     IN  /\ ty.some
                         /\ res[k].label = ExpectedLabel(ty.val, config.max_length.val)
                         /\ (~IsCoreIterator(ty.val)
                                 /\ Len(FullText(ty.val)) <= config.max_length.val)
                                => /\ res[k].label = FullText(ty.val)
                                   /\ Len(res[k].label) <= config.max_length.val

\* under the maximum length 8, `let a = 0;` with a of type VeryLongOuterName<usize>
\* is hinted `VeryLongOuterName<...>`, which is longer
C3_Witness ==
    /\ pc = "done"
    /\ config.max_length = Some(8)
    /\ \E k \in 1..Len(res) :
           /\ res[k].kind = "TypeHint"
           /\ res[k].label = "VeryLongOuterName<...>"
           /\ Len(res[k].label) > 8

\* the type under every reference
RECURSIVE Referent(_)
Referent(ty) == IF ty.ctor = "Ref" THEN Referent(ty.args[1]) ELSE ty

\* a nominal type of the crate `core`, where the trait Iterator is public
IsNominalOfCore(ty) ==
    /\ ty.ctor = "Adt"
    /\ ty.adt.krate = Some(Krate("core"))

IsIteratorForm(label) == StartsWith(label, "impl Iterator<Item = ") /\ EndsWith(label, ">")

\* the labels of the type hints and chaining hints, each with the type it is for
TypedLabels(f, hints) ==
    UNION {{[label |-> hints[k].label, ty |-> ElemAt(f, n).ty.val] :
                n \in {m \in Producers(f, hints[k]) : ElemAt(f, m).ty.some}} :
               k \in {i \in 1..Len(hints) : hints[i].kind \in {"TypeHint", "ChainingHint"}}}

(* C13 as claimed: a type or chaining hint has the label `impl Iterator<Item = T>`
   exactly when the type without its references is a nominal type of core that
   implements Iterator, T being its Item; else it has the default rendering *)
C13_AsClaimed ==
    (pc = "done" /\ config.max_length.some) =>
        \A l \in TypedLabels(file, res) :
            LET under == Referent(l.ty)
                is_iterator == IsNominalOfCore(under) /\ under.impls_iter /\ under.item.some
            IN  /\ IsIteratorForm(l.label) <=> is_iterator
                /\ ~is_iterator => l.label = Rendered(l.ty, config.max_length.val)

(* C13, amended: a type or chaining hint has the label `impl Iterator<Item = T>` exactly
   when the type without its references is a nominal type of core and the hinted type
   itself, references included, implements Iterator with the Item T; else it has the
   default rendering: `&Repeat<i32>` keeps its name, `&mut Repeat<i32>` does not, and
   a type defined outside core keeps its name, behind references or not *)
C13_IteratorFormIffTheTypeItselfIterates ==
    (pc = "done" /\ config.max_length.some) =>
        \A l \in TypedLabels(file, res) :
            LET under == Referent(l.ty)
                is_iterator == IsNominalOfCore(under) /\ l.ty.impls_iter /\ l.ty.item.some
            IN  /\ IsIteratorForm(l.label) <=> is_iterator
                /\ is_iterator =>
                       \/ l.label = "impl Iterator<Item = " \o FullText(l.ty.item.val) \o ">"
                       \/ Len(FullText(l.ty.item.val)) + WrapperLength > config.max_length.val
                /\ ~is_iterator => l.label = Rendered(l.ty, config.max_length.val)
                /\ ~IsNominalOfCore(under) => ~IsIteratorForm(l.label)

\* `let a = 0;` with a of type &mut &mut Repeat<i32> is hinted `impl Iterator<Item = i32>`
C13_Witness ==
    /\ pc = "done"
    /\ config.max_length = Some(MaxLength)
    /\ \E l \in TypedLabels(file, res) :
           /\ l.ty = RefMut(RefMut(RepeatI32))
           /\ l.label = "impl Iterator<Item = i32>"

(* C14: two requests for one file (tree and semantic facts) under one configuration
   return the same list, hint for hint and in the same order, and no step of a request
   changes the file or the configuration *)
C14_SameRequestSameResult ==
    /\ [](  (pc = "done" /\ prev.some /\ prev.val.config = config)
             => res = prev.val.res)
    /\ [][file' = file /\ (pc = "loop" => config' = config)]_vars

\* the second of two requests under the default configuration is done, and the list
\* it returns, with hints of all three kinds, is that of the first
C14_Witness ==
    /\ pc = "done"
    /\ prev.some
    /\ prev.val.config = config
    /\ config = DefaultConfig
    /\ res = prev.val.res
    /\ \A kind \in {"TypeHint", "ParameterHint", "ChainingHint"} : OfKind(kind, res) # <<>>

-----------------------------------------------------------------------------
(* Requests for the hints of one expression and what follows it: up to MaxSeparators
   tokens of whitespace and comments, then a member access or something else *)

MaxSeparators == 3

BLOCK_COMMENT == Tok("COMMENT", "/* c */")

\* `A {}`
RecordExpr(name, ty) ==
    WithTy(Node("RECORD_EXPR",
                <<Node("PATH", <<Node("PATH_SEGMENT", <<NameRef(name)>>)>>), WS,
                  Node("RECORD_EXPR_FIELD_LIST", <<Tok("L_CURLY", "{"), Tok("R_CURLY", "}")>>)>>),
           ty)

\* `make()`, of the type ty
MakeCall(ty) ==
    CallExpr(PathExpr("make", Some(FnDef(Callable("Function", "make", <<>>)))), <<>>, ty)

\* the expressions a chain can start with: a call of a known type, of a unit struct,
\* of an unresolved and of an unknown type, a path to a value of a struct with fields
\* and to a unit struct, a record literal
ChainStarts ==
    {MakeCall(Some(Struct("A", 1))), MakeCall(Some(Struct("D", 0))), MakeCall(None),
     MakeCall(Some(Unknown)), PathExpr("a", Some(Struct("A", 1))),
     PathExpr("D", Some(Struct("D", 0))), RecordExpr("A", Some(Struct("A", 1)))}

\* the tokens the lexer can put between two others: whitespace never follows
\* whitespace, and a line comment ends with its line
Separators(n) ==
    {sep \in {<<>>} \cup SeqsUpTo({WS, NL, COMMENT, BLOCK_COMMENT}, n) :
        /\ \A i \in 1..(Len(sep) - 1) :
               ~(sep[i].kind = "WHITESPACE" /\ sep[i + 1].kind = "WHITESPACE")
        /\ \A i \in 1..Len(sep) : sep[i] = COMMENT => (i < Len(sep) /\ sep[i + 1] = NL)}

\* the expression, the separators, and `.next();`, `.b;`, `;` or, the expression
\* being the argument of a call, `)`
Followed(start, sep, follower) ==
    CASE follower = "method" ->
             ExprStmt(MethodCallExpr(start, sep, "next", <<>>,
                                     Some(Callable("Function", "next", <<>>)), Some(I32)))
      [] follower = "field" ->
             ExprStmt(WithTy(Node("FIELD_EXPR", <<start>> \o sep \o <<DOT, NameRef("b")>>),
                             Some(I32)))
      [] follower = "semicolon" -> Node("EXPR_STMT", <<start>> \o sep \o <<Tok("SEMICOLON", ";")>>)
      [] follower = "argument" ->
             ExprStmt(WithTy(Node("CALL_EXPR",
                                  <<PathExpr("g", None),
                                    Node("ARG_LIST", <<Tok("L_PAREN", "("), start>> \o sep
                                                         \o <<Tok("R_PAREN", ")")>>)>>),
                             None))

ChainFiles(max_separators) ==
    {SourceFile(<<Followed(start, sep, follower)>>) :
         start \in ChainStarts, sep \in Separators(max_separators),
         follower \in {"method", "field", "semicolon", "argument"}}

InitChain == InitOf(ChainFiles(MaxSeparators))

SpecChain == InitChain /\ [][NextRequest]_vars

-----------------------------------------------------------------------------
(* Vocabulary of the statements on chains *)

Expressions(f) == {n \in NodePaths(f, <<>>) : n # <<>> /\ ElemAt(f, n).kind \in ExprKinds}

\* the tokens among the siblings after the expression
FollowingTokens(f, e) ==
    LET siblings == ElemAt(f, Parent(e)).ch
    IN  SelectSeq(SubSeq(siblings, e[Len(e)] + 1, Len(siblings)), LAMBDA t : t.tok)

IsLineBreak(t) == t.kind = "WHITESPACE" /\ Contains(t.text, "\n")

\* what remains of them without the whitespace of one line and without the comments
Remaining(f, e) ==
    SelectSeq(FollowingTokens(f, e),
              LAMBDA t : t.kind # "COMMENT" /\ (t.kind = "WHITESPACE" => IsLineBreak(t)))

IsChainingPoint(f, e) ==
    LET rest == Remaining(f, e)
    IN  Len(rest) >= 2 /\ IsLineBreak(rest[1]) /\ rest[2].kind = "DOT"

ChainingHintsAt(f, e, hints) ==
    SelectSeq(hints, LAMBDA h : h.kind = "ChainingHint" /\ h.range = text_range(f, e))

\* a record literal, a bare path to a value of a struct with no fields, an expression
\* the type of which is not resolved or not known
ExcludedFromChaining(f, e) ==
    LET expr == ElemAt(f, e)
    IN  \/ expr.kind = "RECORD_EXPR"
        \/ ~expr.ty.some
        \/ expr.ty.val.ctor = "Unknown"
        \/ /\ expr.kind = "PATH_EXPR"
           /\ expr.ty.val.ctor = "Adt"
           /\ expr.ty.val.adt.kind = "Struct"
           /\ expr.ty.val.adt.nfields = 0

(* C11: with chaining hints enabled, an expression has a chaining hint only if, of the
   tokens among the siblings after it, whitespace without a line break and comments
   taken away, the first two are whitespace with a line break and `.`; with fewer than
   two left, or two of other kinds, it has none; and a call of a known type in that
   place has one *)
C11_ChainingPointIsLineBreakThenDot ==
    (pc = "done" /\ config.chaining_hints) =>
        \A e \in Expressions(file) :
            /\ ChainingHintsAt(file, e, res) # <<>> => IsChainingPoint(file, e)
            /\ (IsChainingPoint(file, e) /\ ~ExcludedFromChaining(file, e))
                   => ChainingHintsAt(file, e, res) # <<>>

\* `make() /* c */\n    .next();` is done: the call has its hint
C11_Witness ==
    /\ pc = "done"
    /\ config.chaining_hints
    /\ \E e \in Expressions(file) :
           /\ ElemAt(file, e).kind = "CALL_EXPR"
           /\ FollowingTokens(file, e)[1] = WS
           /\ FollowingTokens(file, e)[2] = BLOCK_COMMENT
           /\ FollowingTokens(file, e)[3] = NL
           /\ FollowingTokens(file, e)[4] = DOT
           /\ IsChainingPoint(file, e)
           /\ Len(ChainingHintsAt(file, e, res)) = 1

(* C12: a record literal, a bare path to a value of a struct with no fields and an
   expression of an unresolved or unknown type never have a chaining hint, whatever
   follows them; every other expression at a chaining point has exactly one, its range
   the range of the whole expression; and there are no other chaining hints *)
C12_ExcludedNeverOthersExactlyOnce ==
    pc = "done" =>
        LET points == {e \in Expressions(file) :
                           IsChainingPoint(file, e) /\ ~ExcludedFromChaining(file, e)}
        IN  /\ \A e \in Expressions(file) :
                   ExcludedFromChaining(file, e) => ChainingHintsAt(file, e, res) = <<>>
            /\ \A e \in points : Len(ChainingHintsAt(file, e, res)) = 1
            /\ Len(OfKind("ChainingHint", res)) = Cardinality(points)

\* `D\n    .next();` is done, D a struct with no fields: the path is at a chaining
\* point and has no hint
C12_Witness ==
    /\ pc = "done"
    /\ \E e \in Expressions(file) :
           /\ ElemAt(file, e).kind = "PATH_EXPR"
           /\ ExcludedFromChaining(file, e)
           /\ ElemAt(file, e).ty.some
           /\ IsChainingPoint(file, e)
           /\ ChainingHintsAt(file, e, res) = <<>>
           /\ res = <<>>

\* the first token after the expression that is neither whitespace nor a comment is
\* `.`, and a line break lies before it
DotAfterLineBreak(f, e) ==
    LET tokens == FollowingTokens(f, e)
        trivia(t) == t.kind \in {"WHITESPACE", "COMMENT"}
    IN  \E i \in 1..Len(tokens) :
            /\ tokens[i].kind = "DOT"
            /\ \A j \in 1..(i - 1) : trivia(tokens[j])
            /\ \E j \in 1..(i - 1) : IsLineBreak(tokens[j])

(* C17: an expression of a known type, no record literal and no path to a unit struct,
   has a chaining hint whenever the first token after it that is neither whitespace
   nor a comment is `.` and a line break lies between the two, whatever whitespace
   and comments stand in between *)
C17_AsClaimed ==
    pc = "done" =>
        \A e \in Expressions(file) :
            (DotAfterLineBreak(file, e) /\ ~ExcludedFromChaining(file, e))
                => ChainingHintsAt(file, e, res) # <<>>

-----------------------------------------------------------------------------
(* Requests for the hints of one call of a function named after one of its
   parameters, `set_second(1, 2)`, the parameters before which are named or not *)

PositionFiles(max_params, max_args) ==
    {SourceFile(<<ExprStmt(CallExpr(PathExpr(fn_name,
                                             Some(FnDef(Callable("Function", fn_name, params)))),
                                    args, Some(Unit)))>>) :
         fn_name \in {"set_" \o PositionNames[i] : i \in 1..max_params},
         params \in ParamLists(max_params, FALSE),
         args \in ArgsUpTo(max_args)}

InitPosition == InitOf(PositionFiles(MaxParams, MaxArgs))

SpecPosition == InitPosition /\ [][NextRequest]_vars

(* C15: the rule on the callee's name (it is the parameter's name, or ends with `_` and
   that name) looks at the pair at index 0 of the declared parameters alone: a
   parameter declared at a later position, which no other rule withholds, is hinted,
   also when the parameters before it have no name and are skipped *)
C15_AsClaimed ==
    pc = "done" =>
        \A call \in ResolvedCalls(file) :
            LET callable == get_callable(file, call).val
                args == ArgsInOrder(file, call)
            IN  \A i \in 2..Min(Len(callable.params), Len(args)) :
                    LET name == ParamName(callable.params[i])
                    IN  (name.some
                             /\ ~WithheldFor(file, callable, Stem(name.val), i - 1, args[i]))
                            => HasParamHint(res, text_range(file, args[i]), name.val)

====
